---------------------------- MODULE Spec2Model ----------------------------
(***************************************************************************)
(* wingo-contrib: install / upgrade / search of contrib scripts.           *)
(*                                                                         *)
(* Spec       : the local scripts directory under install and upgrade,     *)
(*              against a remote repository that changes and a user who    *)
(*              edits configuration files.                                 *)
(* SpecSearch : one run of the search command, with its concurrent README  *)
(*              fetches.                                                   *)
(*                                                                         *)
(* File contents and READMEs are sequences of one-character strings.       *)
(***************************************************************************)
EXTENDS Integers, Sequences, FiniteSets, TLC

VARIABLES
    remote,     \* remote[s][f]: the remote repository, per script and file
    local,      \* local[s]: the script directory of s under the scripts root
    last,       \* the last command that ran, and how it ended
    query,      \* search: the query string
    slots,      \* search: ParMap's result slice, one slot per script
    spc,        \* search: where the search command is
    order,      \* search: the jobs in the order their fetches ended
    out         \* search: the scripts printed, in order

vars == <<remote, local, last, query, slots, spc, order, out>>
searchVars == <<query, slots, spc, order, out>>

-----------------------------------------------------------------------------
(* Bounds and value spaces *)

MaxLen == 1

\* the contents a configuration file takes: "", "a", "aa", ...
Data == {[i \in 1..k |-> "a"] : k \in 0..MaxLen}

\* what the non-configuration files of the remote repository hold
Payload == <<"a">>

Names == {"s"}

\* Markers, kept apart from every byte sequence (whose elements are single
\* characters) and from every file and directory
NotListed == <<"notlisted">>     \* no tree entry for the path
Nil == <<"nil">>                 \* a nil []byte: the fetch answered with status >= 400
NoFile == [nofile |-> TRUE]      \* no such file in the script directory
NoDir == [nodir |-> TRUE]        \* no such directory under the scripts root

-----------------------------------------------------------------------------
(* The remote tree *)

configName(scriptName) == scriptName \o ".cfg"

FileNames(s) == {"README.md", s, configName(s), "extra"}

RECURSIVE joinPath(_)
joinPath(parts) ==
    IF Len(parts) = 0 THEN "."
    ELSE IF Len(parts) = 1 THEN parts[1]
    ELSE parts[1] \o "/" \o joinPath(Tail(parts))

\* gt.Tree: the paths of the recursive tree listing, as their components.
\* The repository's own top-level README.md is always listed.
Tree ==
    {<<"README.md">>}
    \cup UNION {{<<s, f>> : f \in {g \in FileNames(s) : remote[s][g] # NotListed}} :
                 s \in DOMAIN remote}

isScript(node) == Len(node) - 1 = 1

split(node) ==
    [scriptName |-> joinPath(SubSeq(node, 1, Len(node) - 1)),
     fileName |-> node[Len(node)]]

gtScriptExists(scriptName) ==
    \E node \in Tree : isScript(node) /\ split(node).scriptName = scriptName

\* the order of sort.StringSlice on the script names of the model
NameOrder == <<"a", "b", "c", "d", "e", "s">>

rank(name) == CHOOSE i \in 1..Len(NameOrder) : NameOrder[i] = name

\* scripts: the script names, deduplicated and sorted
scripts ==
    LET snames == {split(node).scriptName : node \in {n \in Tree : isScript(n)}}
    IN  SelectSeq(NameOrder, LAMBDA n : n \in snames)

\* downloadFile: the bytes, or nil when the status is >= 400
downloadFile(scriptName, fileName) ==
    IF scriptName \in DOMAIN remote /\ fileName \in FileNames(scriptName)
       /\ remote[scriptName][fileName] \notin {NotListed, Nil}
    THEN remote[scriptName][fileName]
    ELSE Nil

\* The Files map that download fills: one key per tree entry of the script.
downloadFiles(scriptName) ==
    [f \in {split(n).fileName : n \in {m \in Tree : split(m).scriptName = scriptName}}
        |-> downloadFile(scriptName, f)]

\* Files[k] of a Go map: nil when k is no key
FilesAt(files, k) == IF k \in DOMAIN files THEN files[k] ELSE Nil

source(scriptName, files) == FilesAt(files, scriptName)

config(scriptName, files) == FilesAt(files, configName(scriptName))

\* download's check after the fetches: README.md or the script file is nil
downloadCorrupt(scriptName, files) ==
    \/ FilesAt(files, "README.md") = Nil
    \/ source(scriptName, files) = Nil

-----------------------------------------------------------------------------
(* The local tree *)

\* the mode os.Create gives a new file: 0666 less the usual umask 022
NewFilePerm == 6 * 64 + 4 * 8 + 4

EmptyDir(s) == [f \in FileNames(s) |-> NoFile]

ltScriptExists(scriptName) == local[scriptName] # NoDir

hasConfig(s) == local[s][configName(s)] # NoFile

readConfig(s) == local[s][configName(s)].data

ProperPrefixes(contents) == {SubSeq(contents, 1, k) : k \in 0..(Len(contents) - 1)}

\* os.Create then io.Copy: the file keeps its mode when it exists already
written(dir, f, contents) ==
    [data |-> contents,
     perm |-> IF dir[f] = NoFile THEN NewFilePerm ELSE dir[f].perm]

\* copyFile: every way one copy can end, as <<directory after, outcome>>
copyFile(dir, files, fileName) ==
    IF FilesAt(files, fileName) = Nil
    THEN {<<dir, "bug">>}
    ELSE {<<[dir EXCEPT ![fileName] = written(dir, fileName, files[fileName])], "ok">>}
         \cup {<<dir, "io">>}
         \cup {<<[dir EXCEPT ![fileName] = written(dir, fileName, p)], "io">> :
                 p \in ProperPrefixes(files[fileName])}

\* range over the keys of a Go map, in an order the language leaves open,
\* stopping at the first fatal copy: either every key is copied, or some
\* copyFile(f) fails after the copies W that the order put before it
copyKeys(dir, files, keys) ==
    LET good == {k \in keys : FilesAt(files, k) # Nil}
        done(W) == [f \in DOMAIN dir |->
                      IF f \in W THEN written(dir, f, files[f]) ELSE dir[f]]
    IN  (IF good = keys THEN {<<done(keys), "ok">>} ELSE {})
        \cup UNION {
               UNION {{r \in copyFile(done(W), files, f) : r[2] # "ok"} :
                        W \in SUBSET (good \ {f})} :
               f \in keys}

copyAll(dir, files) == copyKeys(dir, files, DOMAIN files)

hasBit(perms, i) == (perms \div (2 ^ i)) % 2 = 1

\* chmodx: set the executable bit for owner, group and other
chmodx(perms) ==
    LET p6 == IF hasBit(perms, 6) THEN perms ELSE perms + 2 ^ 6
        p3 == IF hasBit(p6, 3) THEN p6 ELSE p6 + 2 ^ 3
        p0 == IF hasBit(p3, 0) THEN p3 ELSE p3 + 2 ^ 0
    IN p0

-----------------------------------------------------------------------------
(* Commands *)

Ran(cmd, s, skip, outcome) ==
    [cmd |-> cmd, script |-> s, skip |-> skip, outcome |-> outcome]

\* os.Mkdir comes before download: the scripts root once the directory is
\* made and nothing is copied yet
afterMkdir(s) == [local EXCEPT ![s] = EmptyDir(s)]

\* a variant that removes the directory again when download ends fatally
afterFatalDownload_Cleanup(s) == local

\* download ends the process (log.Fatal) with the directory made and
\* nothing in it
afterFatalDownload(s) == afterMkdir(s)

\* install, after both existence checks passed
installBody(s) ==
    LET files == downloadFiles(s) IN
    \* os.Mkdir fails
    \/ /\ local' = local
       /\ last' = Ran("install", s, FALSE, "env")
    \* http.Get fails in download
    \/ /\ local' = afterFatalDownload(s)
       /\ last' = Ran("install", s, FALSE, "fetch")
    \/ /\ downloadCorrupt(s, files)
       /\ local' = afterFatalDownload(s)
       /\ last' = Ran("install", s, FALSE, "corrupt")
    \/ /\ ~downloadCorrupt(s, files)
       /\ \E r \in copyAll(afterMkdir(s)[s], files) :
            \/ /\ r[2] # "ok"
               /\ local' = [local EXCEPT ![s] = r[1]]
               /\ last' = Ran("install", s, FALSE, r[2])
            \/ /\ r[2] = "ok"
               /\ local' = [local EXCEPT ![s] =
                              [r[1] EXCEPT ![s].perm = chmodx(r[1][s].perm)]]
               /\ last' = Ran("install", s, FALSE, "ok")
            \* os.Chmod fails
            \/ /\ r[2] = "ok"
               /\ local' = [local EXCEPT ![s] = r[1]]
               /\ last' = Ran("install", s, FALSE, "chmod")

\* a variant that makes the directory before it looks the script up
Install_MkdirFirst(s) ==
    /\ UNCHANGED <<remote, searchVars>>
    /\ \/ /\ ~gtScriptExists(s)
          /\ local' = IF ltScriptExists(s) THEN local ELSE afterMkdir(s)
          /\ last' = Ran("install", s, FALSE, "no_remote")
       \/ /\ gtScriptExists(s)
          /\ ltScriptExists(s)
          /\ local' = local
          /\ last' = Ran("install", s, FALSE, "already_installed")
       \/ /\ gtScriptExists(s)
          /\ ~ltScriptExists(s)
          /\ installBody(s)
       \/ /\ local' = local
          /\ last' = Ran("install", s, FALSE, "env")

Install(s) ==
    /\ UNCHANGED <<remote, searchVars>>
    /\ \/ /\ ~gtScriptExists(s)
          /\ local' = local
          /\ last' = Ran("install", s, FALSE, "no_remote")
       \/ /\ gtScriptExists(s)
          /\ ltScriptExists(s)
          /\ local' = local
          /\ last' = Ran("install", s, FALSE, "already_installed")
       \/ /\ gtScriptExists(s)
          /\ ~ltScriptExists(s)
          /\ installBody(s)
       \* the tree or the scripts root cannot be read
       \/ /\ local' = local
          /\ last' = Ran("install", s, FALSE, "env")

\* upgrade's three-way decision, once the script is downloaded
upgradeBody(s, flagSkipConfig) ==
    LET files == downloadFiles(s) IN
    IF flagSkipConfig
    THEN \E r \in copyKeys(local[s], files, DOMAIN files \ {configName(s)}) :
            /\ local' = [local EXCEPT ![s] = r[1]]
            /\ last' = Ran("upgrade", s, flagSkipConfig, r[2])
    ELSE IF \/ ~hasConfig(s)
            \/ config(s, files) = Nil
            \/ readConfig(s) = config(s, files)
    THEN \E r \in copyAll(local[s], files) :
            /\ local' = [local EXCEPT ![s] = r[1]]
            /\ last' = Ran("upgrade", s, flagSkipConfig, r[2])
    ELSE /\ local' = local
         /\ last' = Ran("upgrade", s, flagSkipConfig, "abort")

Upgrade(s, flagSkipConfig) ==
    /\ UNCHANGED <<remote, searchVars>>
    /\ \/ /\ ~gtScriptExists(s)
          /\ local' = local
          /\ last' = Ran("upgrade", s, flagSkipConfig, "no_remote")
       \/ /\ gtScriptExists(s)
          /\ ~ltScriptExists(s)
          /\ local' = local
          /\ last' = Ran("upgrade", s, flagSkipConfig, "not_installed")
       \/ /\ gtScriptExists(s)
          /\ ltScriptExists(s)
          /\ downloadCorrupt(s, downloadFiles(s))
          /\ local' = local
          /\ last' = Ran("upgrade", s, flagSkipConfig, "corrupt")
       \/ /\ gtScriptExists(s)
          /\ ltScriptExists(s)
          /\ ~downloadCorrupt(s, downloadFiles(s))
          /\ upgradeBody(s, flagSkipConfig)
       \* the tree, the scripts root, a file or the local config cannot be read
       \/ /\ local' = local
          /\ last' = Ran("upgrade", s, flagSkipConfig, "env")

-----------------------------------------------------------------------------
(* The environment: the user and the remote repository *)

Idle == [cmd |-> "none", script |-> "", skip |-> FALSE, outcome |-> ""]

\* the user edits (or creates) the configuration file of an installed script
UserEditConfig(s, contents) ==
    /\ ltScriptExists(s)
    /\ local' = [local EXCEPT ![s][configName(s)] =
                    written(local[s], configName(s), contents)]
    /\ last' = Idle
    /\ UNCHANGED <<remote, searchVars>>

\* the user moves the configuration file away, as upgrade's message asks
UserMoveConfig(s) ==
    /\ ltScriptExists(s)
    /\ hasConfig(s)
    /\ local' = [local EXCEPT ![s][configName(s)] = NoFile]
    /\ last' = Idle
    /\ UNCHANGED <<remote, searchVars>>

RemoteValues(s, f) ==
    IF f = configName(s) THEN {NotListed, Nil} \cup Data
    ELSE IF f = "extra" THEN {NotListed, Nil, Payload}
    ELSE {NotListed, Payload}

\* the contrib repository changes between two runs
RemoteChange(s, f, v) ==
    /\ remote[s][f] # v
    /\ remote' = [remote EXCEPT ![s][f] = v]
    /\ last' = Idle
    /\ UNCHANGED <<local, searchVars>>

-----------------------------------------------------------------------------
(* search *)

NumScripts == 3

SearchNames == {NameOrder[i] : i \in 1..NumScripts}

\* "Description\n===========\n"
Heading ==
    <<"D", "e", "s", "c", "r", "i", "p", "t", "i", "o", "n", "\n",
      "=", "=", "=", "=", "=", "=", "=", "=", "=", "=", "=", "\n">>

\* "\n\n\n"
Boundary == <<"\n", "\n", "\n">>

\* a panic of the Go runtime: index out of range
Panic == <<"panic: index out of range">>

\* bytes.Index: the place of the first sep in s, 0 when there is none
Index(s, sep) ==
    LET hits == {i \in 1..(Len(s) - Len(sep) + 1) : SubSeq(s, i, i + Len(sep) - 1) = sep}
    IN  IF hits = {} THEN 0 ELSE CHOOSE i \in hits : \A k \in hits : i <= k

\* bytes.Split, for a separator that is not empty
RECURSIVE Split(_, _)
Split(s, sep) ==
    LET i == Index(s, sep)
    IN  IF i = 0 THEN <<s>>
        ELSE <<SubSeq(s, 1, i - 1)>> \o Split(SubSeq(s, i + Len(sep), Len(s)), sep)

isSpace(c) == c \in {" ", "\n", "\t", "\r"}

RECURSIVE TrimSpace(_)
TrimSpace(s) ==
    IF Len(s) = 0 THEN s
    ELSE IF isSpace(s[1]) THEN TrimSpace(Tail(s))
    ELSE IF isSpace(s[Len(s)]) THEN TrimSpace(SubSeq(s, 1, Len(s) - 1))
    ELSE s

\* readDescription: noDesc[1] of the Go code is noDesc[2] here
readDescription(readmeBytes) ==
    LET noDesc == Split(IF readmeBytes = Nil THEN <<>> ELSE readmeBytes, Heading)
    IN  IF Len(noDesc) < 2 THEN Panic
        ELSE LET noEx == Split(noDesc[2], Boundary)
             IN  TrimSpace(noEx[1])

lowerChar(c) ==
    CASE c = "A" -> "a"
      [] c = "B" -> "b"
      [] c = "D" -> "d"
      [] OTHER -> c

ToLower(s) == [i \in 1..Len(s) |-> lowerChar(s[i])]

Contains(s, substr) == Index(s, substr) # 0

\* a slot of ParMap's result slice that no worker has written yet
Pending == [pending |-> TRUE]

dled(sname) ==
    [name |-> sname, desc |-> readDescription(downloadFile(sname, "README.md"))]

\* a variant with the comparison turned around
less_Reversed(s1, s2) == rank(s1.name) > rank(s2.name)

less(s1, s2) == rank(s1.name) < rank(s2.name)

\* fun.QuickSort(less, xs): xs in the order of less
RECURSIVE QuickSort(_)
QuickSort(xs) ==
    IF Len(xs) <= 1 THEN xs
    ELSE LET pivot == xs[1]
             rest == Tail(xs)
         IN  QuickSort(SelectSeq(rest, LAMBDA x : less(x, pivot)))
             \o <<pivot>>
             \o QuickSort(SelectSeq(rest, LAMBDA x : ~less(x, pivot)))

\* the test of the printing loop
matches(script) == Contains(ToLower(script.desc), query)

\* wg.Wait() of fun.ParMap: every slot is written
joined == \A j \in DOMAIN slots : slots[j] # Pending

\* One worker of fun.ParMap ends job j: dled on the j-th name, stored in the
\* j-th slot.  A panic in a goroutine ends the process.
SearchFetch(j) ==
    /\ spc = "fetch"
    /\ slots[j] = Pending
    /\ LET r == dled(scripts[j])
       IN  IF r.desc = Panic
           THEN /\ spc' = "panic"
                /\ slots' = slots
                /\ order' = order
           ELSE /\ spc' = spc
                /\ slots' = [slots EXCEPT ![j] = r]
                /\ order' = Append(order, j)
    /\ UNCHANGED <<remote, local, last, query, out>>

\* After the join: sort, then print the scripts that match.
SearchPrint ==
    /\ spc = "fetch"
    /\ joined
    /\ out' = SelectSeq(QuickSort(slots), matches)
    /\ spc' = "done"
    /\ UNCHANGED <<remote, local, last, query, slots, order>>

\* READMEs of the remote scripts
SearchReadmes ==
    {Heading \o <<"A", "b">> \o Boundary \o <<"x">>,
     <<"t", "\n">> \o Heading \o <<" ", "a", "\n">>,
     Heading \o <<"B">> \o Boundary \o Heading \o <<"a">>,
     <<"a", "\n">>}

Queries == {<<>>, <<"a">>, <<"A">>, <<"b">>}

\* the remote directory of a script whose README.md fetch yields r
\* (NotListed: the script is not in the repository)
SearchRemote(s, r) ==
    [f \in FileNames(s) |->
        IF r = NotListed THEN NotListed
        ELSE IF f = "README.md" THEN r
        ELSE IF f = s THEN Payload
        ELSE NotListed]

InitSearch ==
    /\ \E choice \in [SearchNames -> {NotListed, Nil} \cup SearchReadmes] :
          remote = [s \in SearchNames |-> SearchRemote(s, choice[s])]
    /\ local = [s \in SearchNames |-> NoDir]
    /\ last = [cmd |-> "none", script |-> "", skip |-> FALSE, outcome |-> ""]
    /\ query \in Queries
    /\ slots = [j \in 1..Len(scripts) |-> Pending]
    /\ spc = "fetch"
    /\ order = <<>>
    /\ out = <<>>

NextSearch ==
    \/ \E j \in DOMAIN slots : SearchFetch(j)
    \/ SearchPrint

SpecSearch == InitSearch /\ [][NextSearch]_vars

-----------------------------------------------------------------------------

InitSearchIdle ==
    /\ query = <<>>
    /\ slots = <<>>
    /\ spc = "off"
    /\ order = <<>>
    /\ out = <<>>

Init ==
    /\ remote = [s \in Names |-> [f \in FileNames(s) |-> NotListed]]
    /\ local = [s \in Names |-> NoDir]
    /\ last = Idle
    /\ InitSearchIdle

Next ==
    \/ \E s \in Names : Install(s)
    \/ \E s \in Names, skip \in BOOLEAN : Upgrade(s, skip)
    \/ \E s \in Names, c \in Data : UserEditConfig(s, c)
    \/ \E s \in Names : UserMoveConfig(s)
    \/ \E s \in Names : \E f \in FileNames(s) : \E v \in RemoteValues(s, f) :
          RemoteChange(s, f, v)

Spec == Init /\ [][Next]_vars

-----------------------------------------------------------------------------
(* What the properties speak of, read off the state itself *)

\* s has a file in the remote catalog
InCatalog(s) == \E f \in FileNames(s) : remote[s][f] # NotListed

\* the scripts root holds a directory for s
Installed(s) == local[s] # NoDir

\* this step is a run of cmd on s (the user's and the repository's steps
\* leave last idle)
RunOf(cmd, s) == last'.cmd = cmd /\ last'.script = s

\* the remote files of s whose fetch yields bytes
Fetched(s) == {f \in FileNames(s) : remote[s][f] \notin {NotListed, Nil}}

\* the remote files of s that are listed but whose fetch yields nothing
AbsentOnFetch(s) == {f \in FileNames(s) : remote[s][f] = Nil}

\* README.md and the source file are both fetched
Complete(s) == {"README.md", s} \subseteq Fetched(s)

\* the run ended on a failure of the network or the file system
EnvFailure(outcome) == outcome \in {"env", "fetch", "io", "chmod"}

RemoteHasConfig(s) == configName(s) \in Fetched(s)

LocalHasConfig(s) == Installed(s) /\ local[s][configName(s)] # NoFile

\* f is in the script directory after the step, with the remote bytes
CopiedAfter(s, f) ==
    /\ local'[s] # NoDir
    /\ local'[s][f] # NoFile
    /\ local'[s][f].data = remote[s][f]

anyExecBit(file) == hasBit(file.perm, 6) \/ hasBit(file.perm, 3) \/ hasBit(file.perm, 0)

-----------------------------------------------------------------------------
(* Properties *)

\* C1: if the local S.cfg exists before an upgrade(S), then after that
\* upgrade, however it ended, S.cfg still exists with exactly the bytes it
\* had before.
C1_UpgradeKeepsConfig ==
    [][\A s \in Names :
         (RunOf("upgrade", s) /\ LocalHasConfig(s)) =>
            /\ local'[s] # NoDir
            /\ local'[s][configName(s)] # NoFile
            /\ local'[s][configName(s)].data = local[s][configName(s)].data]_vars

\* What does hold of the configuration file: an upgrade leaves it in place,
\* and with its bytes unless the run, having found it byte-equal to the
\* remote one, failed while writing it again; a proper prefix is left then.
ConfigKeptBarWriteFailure ==
    [][\A s \in Names :
         (RunOf("upgrade", s) /\ LocalHasConfig(s)) =>
            /\ local'[s] # NoDir
            /\ local'[s][configName(s)] # NoFile
            /\ \/ local'[s][configName(s)].data = local[s][configName(s)].data
               \/ /\ last'.outcome = "io"
                  /\ ~last'.skip
                  /\ local[s][configName(s)].data = remote[s][configName(s)]
                  /\ local'[s][configName(s)].data
                        \in ProperPrefixes(local[s][configName(s)].data)]_vars

\* C2: without --skip-config, for a script in the catalog, installed and
\* downloaded complete, and when the network and file system do not fail:
\* upgrade copies every remote file (the config too) if the local config
\* does not exist, or the remote config is absent, or both are byte-equal;
\* otherwise it aborts and writes nothing.
C2_ReconciliationTable ==
    [][\A s \in Names :
         (/\ RunOf("upgrade", s) /\ ~last'.skip
          /\ InCatalog(s) /\ Installed(s) /\ Complete(s)
          /\ ~EnvFailure(last'.outcome)) =>
            IF \/ ~LocalHasConfig(s)
               \/ ~RemoteHasConfig(s)
               \/ local[s][configName(s)].data = remote[s][configName(s)]
            THEN \A f \in Fetched(s) : CopiedAfter(s, f)
            ELSE last'.outcome = "abort" /\ local' = local]_vars

\* C3: with --skip-config, under the same conditions: upgrade copies every
\* remote file but S.cfg, leaves S.cfg as it was (none stays none), and
\* never aborts.
C3_SkipConfigBranch ==
    [][\A s \in Names :
         (/\ RunOf("upgrade", s) /\ last'.skip
          /\ InCatalog(s) /\ Installed(s) /\ Complete(s)
          /\ ~EnvFailure(last'.outcome)) =>
            /\ \A f \in Fetched(s) \ {configName(s)} : CopiedAfter(s, f)
            /\ local'[s] # NoDir
            /\ local'[s][configName(s)] = local[s][configName(s)]
            /\ last'.outcome # "abort"]_vars

\* The table of C2 and the skip branch of C3 do hold of the runs in which no
\* listed file of the script is absent on fetch (for the skip branch: none
\* but S.cfg, which it does not copy).
TableBarAbsentFiles ==
    [][\A s \in Names :
         (/\ RunOf("upgrade", s) /\ ~last'.skip
          /\ InCatalog(s) /\ Installed(s) /\ Complete(s)
          /\ AbsentOnFetch(s) = {}
          /\ ~EnvFailure(last'.outcome)) =>
            IF \/ ~LocalHasConfig(s)
               \/ ~RemoteHasConfig(s)
               \/ local[s][configName(s)].data = remote[s][configName(s)]
            THEN last'.outcome = "ok" /\ \A f \in Fetched(s) : CopiedAfter(s, f)
            ELSE last'.outcome = "abort" /\ local' = local]_vars

SkipBranchBarAbsentFiles ==
    [][\A s \in Names :
         (/\ RunOf("upgrade", s) /\ last'.skip
          /\ InCatalog(s) /\ Installed(s) /\ Complete(s)
          /\ AbsentOnFetch(s) \subseteq {configName(s)}
          /\ ~EnvFailure(last'.outcome)) =>
            /\ last'.outcome = "ok"
            /\ \A f \in Fetched(s) \ {configName(s)} : CopiedAfter(s, f)
            /\ local'[s][configName(s)] = local[s][configName(s)]]_vars

\* C3, the part about the configuration file alone
C3_SkipConfigFrame ==
    [][\A s \in Names :
         (RunOf("upgrade", s) /\ last'.skip /\ Installed(s)) =>
            /\ local'[s] # NoDir
            /\ local'[s][configName(s)] = local[s][configName(s)]
            /\ last'.outcome # "abort"]_vars

\* C4: install or upgrade of a script that is not in the catalog, install of
\* an installed script and upgrade of a script that is not installed end
\* fatally and leave the scripts root exactly as it was.
C4_NotFoundNoSideEffects ==
    [][\A s \in Names :
         (/\ RunOf("install", s) \/ RunOf("upgrade", s)
          /\ \/ ~InCatalog(s)
             \/ last'.cmd = "install" /\ Installed(s)
             \/ last'.cmd = "upgrade" /\ ~Installed(s)) =>
            /\ local' = local
            /\ last'.outcome \in {"no_remote", "already_installed", "not_installed", "env"}
            /\ ~InCatalog(s) /\ last'.outcome # "env" => last'.outcome = "no_remote"]_vars

C4_Witness ==
    /\ last.cmd = "upgrade"
    /\ last.outcome = "no_remote"
    /\ Installed(last.script)
    /\ local[last.script][last.script] # NoFile

\* C5: a listed optional file whose fetch yields nothing is not fatal: with
\* README.md and the source fetched and no failure of the network or the
\* file system, install (of a script not installed) and upgrade (of an
\* installed one) do not end fatally.
C5_AbsentOptionalNotFatal ==
    [][\A s \in Names :
         (/\ \/ RunOf("install", s) /\ ~Installed(s)
             \/ RunOf("upgrade", s) /\ Installed(s)
          /\ Complete(s)
          /\ AbsentOnFetch(s) # {}
          /\ ~EnvFailure(last'.outcome)) =>
            last'.outcome \in {"ok", "abort"}]_vars

\* C9: two runs of upgrade --skip-config in succession, the remote content
\* the same and neither run failing on the network or the file system: the
\* second run leaves every file of S, S.cfg too, as the first run left it.
C9_SkipUpgradeIdempotent ==
    [][\A s \in Names :
         (/\ last.cmd = "upgrade" /\ last.script = s /\ last.skip
          /\ ~EnvFailure(last.outcome)
          /\ RunOf("upgrade", s) /\ last'.skip
          /\ ~EnvFailure(last'.outcome)) =>
            local'[s] = local[s]]_vars

\* The idempotence of C9 does hold when no listed file but S.cfg is absent
\* on fetch.
SkipUpgradeIdempotentBarAbsentFiles ==
    [][\A s \in Names :
         (/\ last.cmd = "upgrade" /\ last.script = s /\ last.skip
          /\ ~EnvFailure(last.outcome)
          /\ RunOf("upgrade", s) /\ last'.skip
          /\ ~EnvFailure(last'.outcome)
          /\ AbsentOnFetch(s) \subseteq {configName(s)}) =>
            local'[s] = local[s]]_vars

\* C10: a fatal install after the directory was made leaves the directory;
\* an installed script stays installed; install of an installed script
\* changes nothing and, the script being in the catalog, ends as already
\* installed; upgrade gives no file an executable bit it did not have.
C10_FailedInstallSticky ==
    [][\A s \in Names :
         /\ (RunOf("install", s) /\ ~Installed(s)
             /\ last'.outcome \in {"corrupt", "bug", "fetch", "io", "chmod"})
               => local'[s] # NoDir
         /\ Installed(s) => local'[s] # NoDir
         /\ (RunOf("install", s) /\ Installed(s)) =>
               /\ local' = local
               /\ (InCatalog(s) /\ last'.outcome # "env")
                     => last'.outcome = "already_installed"
         /\ (RunOf("upgrade", s) /\ Installed(s)) =>
               \A f \in FileNames(s) :
                  (local'[s][f] # NoFile /\ anyExecBit(local'[s][f])) =>
                     (local[s][f] # NoFile /\ anyExecBit(local[s][f]))]_vars

\* a failed install was followed by an upgrade that filled the directory:
\* the source file is there and is not executable
C10_Witness ==
    /\ last.cmd = "upgrade"
    /\ last.outcome = "ok"
    /\ local[last.script][last.script] # NoFile
    /\ local[last.script][last.script].data = Payload
    /\ ~anyExecBit(local[last.script][last.script])

-----------------------------------------------------------------------------
(* Properties of search *)

printed(name) == \E i \in DOMAIN out : out[i].name = name

descriptionOf(name) == readDescription(downloadFile(name, "README.md"))

\* C6: once search has printed, a script is printed iff the query is a
\* substring of its description, letter case ignored on both sides.
C6_SearchIgnoresCase ==
    spc = "done" =>
       \A j \in DOMAIN scripts :
          printed(scripts[j]) <=>
             Contains(ToLower(descriptionOf(scripts[j])), ToLower(query))

\* C8: a README without the Description heading (or no README at all) does
\* not end search on an index out of range.
C8_MalformedReadmeNoCrash ==
    (\E j \in DOMAIN scripts :
        Index(downloadFile(scripts[j], "README.md"), Heading) = 0)
       => spc # "panic"

\* C7: nothing is printed before every fetch has ended; each slot holds the
\* description of its own script; and what is printed is, in ascending
\* order of name, the scripts whose description passes the test.
C7_SearchOrder ==
    /\ out # <<>> => spc = "done"
    /\ spc = "done" => \A j \in DOMAIN scripts : j \in DOMAIN slots /\ slots[j] # Pending
    /\ \A j \in DOMAIN slots :
          slots[j] # Pending =>
             slots[j] = [name |-> scripts[j], desc |-> descriptionOf(scripts[j])]
    /\ spc = "done" =>
          /\ \A i, k \in DOMAIN out : i < k => rank(out[i].name) < rank(out[k].name)
          /\ \A i \in DOMAIN out : out[i].desc = descriptionOf(out[i].name)
          /\ \A j \in DOMAIN scripts :
                printed(scripts[j]) <=>
                   Contains(ToLower(descriptionOf(scripts[j])), query)

\* several scripts were printed though their fetches ended in another order
\* than that of their names
C7_Witness ==
    /\ spc = "done"
    /\ Len(out) >= 2
    /\ \E i, k \in DOMAIN order : i < k /\ order[i] > order[k]

=============================================================================
